---- MODULE Spec2Model ----
(***************************************************************************)
(* noteRAG: the multi-user note server (python_server/main.py) and its     *)
(* retrieval core (python_server/rag_core.py).                             *)
(*                                                                         *)
(* Two stores are modelled: the relational table of notes and the vector   *)
(* collections of the vector backend.  Every request handler is one        *)
(* action; the handlers are coroutines without an await inside, so each    *)
(* runs to completion before the next request is served.  The outcome of   *)
(* the last request is kept in `last`, the history of the notes ever       *)
(* committed in `hist`.                                                    *)
(***************************************************************************)
EXTENDS Integers, Sequences, FiniteSets, TLC

\* ------------------------------------------------------------------ bounds
MaxNotes == 2      \* notes ever committed to the relational store
MaxLimit == 2      \* largest limit / top_k a client passes
MaxReqs == 3       \* requests in flight at the same time
MaxTime == 2       \* ticks of the clock
MaxIdLen == 3      \* longest tail of an identity handed to NoteRAG()
PadLen == 40       \* head that brings an identity to the limit of a name

\* ------------------------------------------------------- program constants
\* auth.py:40, one week, scaled to one tick of the model clock
ACCESS_TOKEN_EXPIRE_MINUTES == 1
\* rag_core.py:166, the backend's limit on the length of a collection name
MaxCollectionNameLen == 63
\* core.py:164, the window in which the legacy add_note takes a note with the
\* same text for a duplicate, in milliseconds
DedupWindowMs == 10000

\* ------------------------------------------------------------- identities
\* A string is a sequence of one-character strings.
NoUser == << >>                                      \* None (also falsy "")
UA == <<"a", ".", "b", "@", "x">>
UB == <<"a", "_", "b", "@", "x">>
Users == {UA, UB}

Lower == {"a","b","c","d","e","f","g","h","i","j","k","l","m",
          "n","o","p","q","r","s","t","u","v","w","x","y","z"}
Upper == {"A","B","C","D","E","F","G","H","I","J","K","L","M",
          "N","O","P","Q","R","S","T","U","V","W","X","Y","Z"}
Digit == {"0","1","2","3","4","5","6","7","8","9"}
\* the character class [a-zA-Z0-9_-] of rag_core.py:159
NameChars == Lower \cup Upper \cup Digit \cup {"_", "-"}

collection_name_prefix ==
    <<"n","o","t","e","r","a","g","_","c","o","l","l","e","c","t","i","o","n",
      "_","v","2">>

\* re.sub(r'[^a-zA-Z0-9_-]', '_', s)
ReplaceInvalid(s) == [i \in 1..Len(s) |-> IF s[i] \in NameChars THEN s[i] ELSE "_"]

\* re.sub(r'_+', '_', s)
RECURSIVE CollapseUnderscores(_)
CollapseUnderscores(s) ==
    IF Len(s) <= 1 THEN s
    ELSE IF s[1] = "_" /\ s[2] = "_" THEN CollapseUnderscores(Tail(s))
    ELSE <<s[1]>> \o CollapseUnderscores(Tail(s))

\* s.strip('_')
RECURSIVE StripLeft(_)
StripLeft(s) == IF s # << >> /\ s[1] = "_" THEN StripLeft(Tail(s)) ELSE s
RECURSIVE StripRight(_)
StripRight(s) ==
    IF s # << >> /\ s[Len(s)] = "_" THEN StripRight(SubSeq(s, 1, Len(s) - 1)) ELSE s
\* strip('_') as it would be if it stripped the left end only
StripUnderscores_LeftOnly(s) == StripLeft(s)
StripUnderscores(s) == StripRight(StripLeft(s))

Truncate(s, n) == SubSeq(s, 1, IF Len(s) < n THEN Len(s) ELSE n)

\* NoteRAG.__init__: the name of the collection a handle is bound to
CollectionName(user_email) ==
    IF user_email # NoUser
    THEN LET sanitized == StripUnderscores(CollapseUnderscores(ReplaceInvalid(user_email)))
             sanitized_email == IF sanitized = << >>
                                THEN <<"i","n","v","a","l","i","d","_","u","s","e","r">>
                                ELSE sanitized
         IN  Truncate(collection_name_prefix \o <<"_">> \o sanitized_email,
                      MaxCollectionNameLen)
    ELSE collection_name_prefix \o <<"_","d","e","f","a","u","l","t">>

\* ------------------------------------------------------------------ texts
EmptyText == ""
ShortText == "AI is cool"
LongText  == "a text longer than one chunk"
Texts == {EmptyText, ShortText, LongText}

\* Settings.node_parser.get_nodes_from_documents: the number of chunks (nodes)
\* the splitter (chunk_size=512, chunk_overlap=64) cuts a text into.
NumChunks(text) == IF text = EmptyText THEN 0 ELSE IF text = ShortText THEN 1 ELSE 2

\* note_<timestamp>_<random>, main.py:408; n counts the notes committed before
NoteId(n) == <<"note", n>>
\* the uuid4 the node parser gives to chunk c of the document of note n
NodeId(n, c) == <<"uuid", n, c>>
NoteIds == {NoteId(n) : n \in 1..MaxNotes + 1}

DefaultTitle == "Untitled Note"
NoTitle == "None"

\* the passwords a client types (UserCreate.password, twelve characters or more)
Password1 == "correct horse"
Password2 == "battery staple"
Passwords == {Password1, Password2}
\* pwd_context.hash / pwd_context.verify: a hash is not the password, and it
\* verifies exactly the password it was made from
Hash(password) == <<"bcrypt", password>>
Verify(password, hashed_password) == hashed_password = Hash(password)
\* User.last_login before the first login (NULL)
NoLogin == -1

\* the requests that may be in the event loop at the same time
Reqs == 1..MaxReqs

VARIABLES
    now,                 \* the wall clock (datetime.now), in ticks
    users,               \* table users: the registered emails
    notes,               \* table notes: set of rows [id, user_id, title, text, created_at]
    vectors,             \* vector backend: set of records [coll, node_id, doc_id, text]
    note_rag_instances,  \* main.py:85, the keys of the handle cache
    hist,                \* history: for the n-th committed note [user, ok, deleted]
    last,                \* the last request and its response
    accounts,            \* table users, the other columns: for each registered email
                         \*   [hashed_password, is_active, last_login]
    issued,              \* history: the tokens register and login have handed out
    tasks,               \* the requests in the event loop: [user, pc, obj, handle]
    running,             \* the request that holds the event loop, 0 if none does
    constructed,         \* history: the key of every NoteRAG built, in order
    cached,              \* main.py:85, the values of the handle cache: for each key
                         \*   the number of the NoteRAG it holds, 0 if none
    docstore             \* the legacy server's index (core.py): for the n-th inserted
                         \*   document [text, timestamp, present]

vars == <<now, users, notes, vectors, note_rag_instances, hist, last,
          accounts, issued, tasks, running, constructed, cached, docstore>>
\* Spec and AuthSpec take a handler as one step and keep only the keys of the
\* handle cache; ConcSpec takes get_note_rag line by line
authvars == <<accounts, issued>>
storevars == <<now, users, notes, vectors, hist, last, accounts, issued, docstore>>
loopvars == <<tasks, running, constructed, cached>>

\* ----------------------------------------------------------------- tokens
NoToken == [sub |-> NoUser, exp |-> 0, sig |-> FALSE]   \* no Authorization header

\* auth.create_access_token: claims {"sub": email, "exp": now + expiry}, signed
create_access_token(email, t) ==
    [sub |-> email, exp |-> t + ACCESS_TOKEN_EXPIRE_MINUTES, sig |-> TRUE]

\* The tokens a client can hold: the ones register and login hand out for a
\* registered email (at any time up to now, without changing the stores), a
\* forged one per email, and none at all.
ClientTokens ==
    {create_access_token(e, t) : e \in users, t \in 0..now}
    \cup {[sub |-> e, exp |-> now + 1, sig |-> FALSE] : e \in Users}
    \cup {NoToken}

\* verify_token as it would be if it trusted the claims of the token and did
\* not look the user up
verify_token_ClaimsOnly(token, fault) ==
    IF ~token.sig THEN NoUser
    ELSE IF token.exp < now THEN NoUser
    ELSE token.sub

\* auth.verify_token: the email of a signed, unexpired token of a user who is
\* in the database and active; None (NoUser) in every other case, a failing
\* lookup included (fault = "lookup")
verify_token(token, fault) ==
    IF ~token.sig THEN NoUser                       \* JWTError
    ELSE IF token.exp < now THEN NoUser             \* ExpiredSignatureError
    ELSE IF token.sub = NoUser THEN NoUser          \* payload.get("sub") is None
    ELSE IF fault = "lookup" THEN NoUser            \* except Exception
    ELSE IF token.sub \notin users THEN NoUser      \* user is None
    ELSE IF ~accounts[token.sub].is_active THEN NoUser
    ELSE token.sub

\* main.get_optional_user / get_current_user: both resolve through verify_token
get_optional_user(token) ==
    IF token = NoToken THEN NoUser ELSE verify_token(token, "none")

\* ---------------------------------------------------------------- queries
\* the listing query as it would be without its ownership filter
NotesOfUser_Unfiltered(user_email) == notes

\* db.query(Note).filter(Note.user_id == user_email)
NotesOfUser(user_email) == {r \in notes : r.user_id = user_email}

\* db.query(Note).filter(Note.id.in_(note_ids), Note.user_id == user_email)
NotesFromDb(note_ids, user_email) ==
    {r \in notes : r.id \in note_ids /\ r.user_id = user_email}

\* the lookup of a delete as it would be without its ownership filter
NoteToDelete_AnyOwner(note_id, user_email) == {r \in notes : r.id = note_id}

\* db.query(Note).filter(Note.id == note_id, Note.user_id == user_email).first()
NoteToDelete(note_id, user_email) ==
    {r \in notes : r.id = note_id /\ r.user_id = user_email}

\* the records of the collection a user's handle is bound to
Collection(user_email) == {v \in vectors : v.coll = CollectionName(user_email)}

Min(a, b) == IF a < b THEN a ELSE b
Range(s) == {s[i] : i \in 1..Len(s)}

\* index.as_retriever(similarity_top_k=k).retrieve(query): the k nearest
\* records of the collection in descending similarity.  Which records are
\* nearest is the embedding model's choice, so every ranking is possible;
\* the score falls with the rank.
Retrievals(user_email, k) ==
    LET coll == Collection(user_email)
        m    == Min(k, Cardinality(coll))
    IN  {[i \in 1..m |-> [node_id |-> f[i].node_id, doc_id |-> f[i].doc_id,
                          text |-> f[i].text, score |-> MaxLimit + 2 - i]] :
            f \in {g \in [1..m -> coll] : \A i, j \in 1..m : i # j => g[i] # g[j]}}

\* order_by(Note.created_at.desc()): every order of the rows that respects it
OrderedByCreatedDesc(rows) ==
    {s \in [1..Cardinality(rows) -> rows] :
        /\ \A i, j \in 1..Cardinality(rows) : i # j => s[i] # s[j]
        /\ \A i, j \in 1..Cardinality(rows) : i < j => s[i].created_at >= s[j].created_at}

\* --------------------------------------------------------- retrieval core
\* NoteRAG.search_notes, lines 382-398: walk the retrieved ids in the
\* retriever's order and emit the row the map holds for each id
RECURSIVE CombineResults(_, _, _)
CombineResults(retrieved, note_ids, db_notes) ==
    IF note_ids = << >> THEN << >>
    ELSE LET row == {r \in db_notes : r.id = note_ids[1]}
         IN  (IF row # {}
              THEN LET db_note == CHOOSE r \in row : TRUE
                   IN  <<[id |-> db_note.id, text |-> db_note.text,
                          title |-> db_note.title, score |-> retrieved[1].score]>>
              ELSE << >>)
             \o CombineResults(Tail(retrieved), Tail(note_ids), db_notes)

\* search_notes as it would be if it emitted the rows in the order the
\* relational store keeps them (oldest first) instead of the retriever's
search_notes_DbOrder(user_email, retrieved, fault) ==
    IF user_email = NoUser \/ fault \in {"retrieve", "db"} THEN << >>
    ELSE LET rows == NotesFromDb({retrieved[i].doc_id : i \in 1..Len(retrieved)},
                                 user_email)
             n    == Cardinality(rows)
             s    == CHOOSE t \in [1..n -> rows] :
                        \A i, j \in 1..n : i < j => t[i].created_at < t[j].created_at
         IN  [i \in 1..n |->
                [id |-> s[i].id, text |-> s[i].text, title |-> s[i].title,
                 score |-> retrieved[CHOOSE k \in 1..Len(retrieved) :
                                        retrieved[k].doc_id = s[i].id].score]]

\* search_notes as it would be if it emitted the retrieved hits under their
\* doc_id without looking them up in the relational store
search_notes_Unreconciled(user_email, retrieved, fault) ==
    IF user_email = NoUser \/ fault \in {"retrieve", "db"} THEN << >>
    ELSE [i \in 1..Len(retrieved) |->
            [id |-> retrieved[i].doc_id, text |-> retrieved[i].text,
             title |-> DefaultTitle, score |-> retrieved[i].score]]

\* NoteRAG.search_notes: the ids it joins on are the retrieved nodes' node ids
search_notes(user_email, retrieved, fault) ==
    IF user_email = NoUser THEN << >>
    ELSE IF fault = "retrieve" THEN << >>            \* except branch, line 402
    ELSE IF retrieved = << >> THEN << >>
    ELSE IF fault = "db" THEN << >>                  \* except branch, line 402
    ELSE LET note_ids == [i \in 1..Len(retrieved) |-> retrieved[i].node_id]
         IN  CombineResults(retrieved, note_ids,
                            NotesFromDb(Range(note_ids), user_email))

\* NoteRAG.query_notes, lines 503-506: every collected hit becomes a source,
\* with the title of its row when the lookup returned one
SourceNodes(source_nodes_metadata, notes_from_db) ==
    [i \in 1..Len(source_nodes_metadata) |->
        LET meta == source_nodes_metadata[i]
            row  == {r \in notes_from_db : r.id = meta.id}
        IN  [id |-> meta.id, score |-> meta.score,
             title |-> IF row # {} THEN (CHOOSE r \in row : TRUE).title ELSE NoTitle]]

\* query_notes as it would be if a failed call of the language model still
\* returned the sources collected before it
query_notes_SourcesOnLlmFailure(user_email, retrieved, fault) ==
    IF user_email = NoUser
    THEN [response |-> "user_context_required", source_nodes |-> << >>, llm_calls |-> 0]
    ELSE IF fault \in {"retrieve", "db"}
    THEN [response |-> "error", source_nodes |-> << >>, llm_calls |-> 0]
    ELSE IF retrieved = << >>
    THEN [response |-> "no_relevant_notes", source_nodes |-> << >>, llm_calls |-> 0]
    ELSE LET source_nodes_metadata ==
                 [i \in 1..Len(retrieved) |->
                     [id |-> retrieved[i].doc_id, score |-> retrieved[i].score]]
             notes_from_db == NotesFromDb({retrieved[i].doc_id : i \in 1..Len(retrieved)},
                                          user_email)
         IN  IF notes_from_db = {}
             THEN [response |-> "no_content",
                   source_nodes |-> source_nodes_metadata, llm_calls |-> 0]
             ELSE [response |-> IF fault = "llm" THEN "error" ELSE "answer",
                   source_nodes |-> SourceNodes(source_nodes_metadata, notes_from_db),
                   llm_calls |-> 1]

\* query_notes as it would be without the check that the lookup returned rows
query_notes_NoShortCircuit(user_email, retrieved, fault) ==
    IF user_email = NoUser
    THEN [response |-> "user_context_required", source_nodes |-> << >>, llm_calls |-> 0]
    ELSE IF fault \in {"retrieve", "db"}
    THEN [response |-> "error", source_nodes |-> << >>, llm_calls |-> 0]
    ELSE IF retrieved = << >>
    THEN [response |-> "no_relevant_notes", source_nodes |-> << >>, llm_calls |-> 0]
    ELSE IF fault = "llm"
    THEN [response |-> "error", source_nodes |-> << >>, llm_calls |-> 1]
    ELSE [response |-> "answer",
          source_nodes |->
              SourceNodes([i \in 1..Len(retrieved) |->
                              [id |-> retrieved[i].doc_id, score |-> retrieved[i].score]],
                          NotesFromDb({retrieved[i].doc_id : i \in 1..Len(retrieved)},
                                      user_email)),
          llm_calls |-> 1]

\* query_notes as it would be if a failed lookup of the rows still returned
\* the sources collected from the hits
query_notes_SourcesOnLookupFailure(user_email, retrieved, fault) ==
    IF user_email = NoUser
    THEN [response |-> "user_context_required", source_nodes |-> << >>, llm_calls |-> 0]
    ELSE IF fault = "retrieve"
    THEN [response |-> "error", source_nodes |-> << >>, llm_calls |-> 0]
    ELSE IF retrieved = << >>
    THEN [response |-> "no_relevant_notes", source_nodes |-> << >>, llm_calls |-> 0]
    ELSE LET source_nodes_metadata ==
                 [i \in 1..Len(retrieved) |->
                     [id |-> retrieved[i].doc_id, score |-> retrieved[i].score]]
             notes_from_db == NotesFromDb({retrieved[i].doc_id : i \in 1..Len(retrieved)},
                                          user_email)
         IN  IF fault = "db"
             THEN [response |-> "error",
                   source_nodes |-> source_nodes_metadata, llm_calls |-> 0]
             ELSE IF notes_from_db = {}
             THEN [response |-> "no_content",
                   source_nodes |-> source_nodes_metadata, llm_calls |-> 0]
             ELSE IF fault = "llm"
             THEN [response |-> "error", source_nodes |-> << >>, llm_calls |-> 1]
             ELSE [response |-> "answer",
                   source_nodes |-> SourceNodes(source_nodes_metadata, notes_from_db),
                   llm_calls |-> 1]

\* NoteRAG.query_notes: response kind, sources and the number of calls of
\* Settings.llm.complete
query_notes(user_email, retrieved, fault) ==
    IF user_email = NoUser
    THEN [response |-> "user_context_required", source_nodes |-> << >>, llm_calls |-> 0]
    ELSE IF fault = "retrieve"
    THEN [response |-> "error", source_nodes |-> << >>, llm_calls |-> 0]
    ELSE IF retrieved = << >>
    THEN [response |-> "no_relevant_notes", source_nodes |-> << >>, llm_calls |-> 0]
    ELSE LET source_nodes_metadata ==
                 [i \in 1..Len(retrieved) |->
                     [id |-> retrieved[i].doc_id, score |-> retrieved[i].score]]
             note_ids == {retrieved[i].doc_id : i \in 1..Len(retrieved)}
         IN  IF fault = "db"
             THEN [response |-> "error", source_nodes |-> << >>, llm_calls |-> 0]
             ELSE LET notes_from_db == NotesFromDb(note_ids, user_email)
                  IN  IF notes_from_db = {}
                      THEN [response |-> "no_content",
                            source_nodes |-> source_nodes_metadata, llm_calls |-> 0]
                      ELSE IF fault = "llm"
                      THEN [response |-> "error", source_nodes |-> << >>, llm_calls |-> 1]
                      ELSE [response |-> "answer",
                            source_nodes |-> SourceNodes(source_nodes_metadata, notes_from_db),
                            llm_calls |-> 1]

\* NoteRAG.query_notes, line 476: the context blocks it can build, as the
\* ids of the notes in them.  The block lists notes_from_db as .all() returned
\* it; the query has no ORDER BY, so the rows come in an order of the
\* database's choice.
context_str(user_email, retrieved) ==
    LET notes_from_db == NotesFromDb({retrieved[i].doc_id : i \in 1..Len(retrieved)},
                                     user_email)
        n == Cardinality(notes_from_db)
    IN  {[i \in 1..n |-> s[i].id] :
            s \in {t \in [1..n -> notes_from_db] : \A i, j \in 1..n : i # j => t[i] # t[j]}}

\* add_note_vector as it would be if it inserted a record for a document
\* that the node parser gave no chunk for
add_note_vector_EmptyChunk(user_email, n, text) ==
    vectors \cup {[coll |-> CollectionName(user_email), node_id |-> NodeId(n, c),
                   doc_id |-> NoteId(n), text |-> text] :
                      c \in 1..(IF NumChunks(text) = 0 THEN 1 ELSE NumChunks(text))}

\* NoteRAG.add_note_vector: the records the collection holds afterwards
add_note_vector(user_email, n, text) ==
    vectors \cup {[coll |-> CollectionName(user_email), node_id |-> NodeId(n, c),
                   doc_id |-> NoteId(n), text |-> text] : c \in 1..NumChunks(text)}

\* delete_note_vector as it would be if it emptied the handle's collection
delete_note_vector_WholeCollection(user_email, note_id) ==
    {v \in vectors : v.coll # CollectionName(user_email)}

\* NoteRAG.delete_note_vector: collection.delete(where={"doc_id": note_id})
delete_note_vector(user_email, note_id) ==
    {v \in vectors : ~(v.coll = CollectionName(user_email) /\ v.doc_id = note_id)}

\* NoteRAG.delete_note_vector, lines 311-340: what it returns and the records
\* left; when collection.delete raises (fault = "vec") the inner except
\* returns False and nothing is removed
DeleteVector(user_email, note_id, fault) ==
    IF fault = "vec" THEN [success |-> FALSE, vectors |-> vectors]
    ELSE [success |-> TRUE, vectors |-> delete_note_vector(user_email, note_id)]

\* ---------------------------------------------------------------- actions
\* the record of a request and its response
\*   exp: the exp claim of the presented token (kept for register and list)
\*   arg: the note id of a delete, the query text of a search
\*   hits: the doc_ids of the retrieved nodes, in the retriever's order
\*   fault: the step of the handler that failed, "none" if none did
\*   context: the ids of the notes in the context block of a query's prompt
\*   success: what delete_note_vector returned to a delete, which logs it
Response(op, exp, user, arg, fault, hits, status, detail, body, llm_calls) ==
    [op |-> op, exp |-> exp, user |-> user, arg |-> arg, fault |-> fault, hits |-> hits,
     status |-> status, detail |-> detail, body |-> body, llm_calls |-> llm_calls,
     context |-> << >>, success |-> FALSE]

DocIds(retrieved) == [i \in 1..Len(retrieved) |-> retrieved[i].doc_id]

\* a request that has not arrived yet
NewTask == [user |-> NoUser, pc |-> "new", obj |-> 0, handle |-> 0]

\* no request is being answered
Idle == Response("idle", 0, NoUser, "", "none", << >>, 0, "", << >>, 0)

\* the process has started and lifespan() has built the default handle; both
\* stores are empty and the clock reads 0
Init ==
    /\ now = 0
    /\ users = {}
    /\ notes = {}
    /\ vectors = {}
    /\ note_rag_instances = {NoUser}
    /\ hist = << >>
    /\ last = Idle
    /\ accounts = << >>
    /\ issued = {}
    /\ tasks = [r \in Reqs |-> NewTask]
    /\ running = 0
    /\ constructed = <<NoUser>>
    /\ cached = [k \in Users \cup {NoUser} |-> IF k = NoUser THEN 1 ELSE 0]
    /\ docstore = << >>

\* auth.get_user
get_user(email) == IF email \in users THEN {email} ELSE {}

\* create_user as it would be if it stored the new password for an email
\* that is registered already
create_user_Overwrite(email, password) ==
    [e \in users \cup {email} |->
        IF e = email
        THEN [hashed_password |-> Hash(password), is_active |-> TRUE,
              last_login |-> IF e \in users THEN accounts[e].last_login ELSE NoLogin]
        ELSE accounts[e]]

\* auth.create_user: the rows of the table afterwards; the row of a
\* registered email is returned as it is
create_user(email, password) ==
    IF get_user(email) # {} THEN accounts
    ELSE [e \in users \cup {email} |->
            IF e = email
            THEN [hashed_password |-> Hash(password), is_active |-> TRUE,
                  last_login |-> NoLogin]
            ELSE accounts[e]]

\* POST /api/register; with fault = "db" the query or the commit of
\* create_user raises and the request ends with 500
register_user(email, password, fault) ==
    /\ UNCHANGED <<now, notes, vectors, note_rag_instances, hist>>
    /\ IF fault = "db"
       THEN /\ last' = Response("register", 0, email, password, fault, << >>,
                                500, "internal_error", << >>, 0)
            /\ UNCHANGED <<users, accounts, issued>>
       ELSE /\ fault = "none"
            /\ accounts' = create_user(email, password)
            /\ users' = DOMAIN accounts'
            /\ issued' = issued \cup {create_access_token(email, now)}
            /\ last' = Response("register", create_access_token(email, now).exp, email,
                                password, fault, << >>, 200, "", << >>, 0)

\* main.get_note_rag: the cache after a call that could build the handle
get_note_rag(user_email) == note_rag_instances \cup {user_email}

\* the handler as it would be if it took the row back out of the relational
\* store when the indexing fails
add_note_Compensating(token, text, fault) ==
    LET user_email == get_optional_user(token)
        n == Len(hist) + 1
        db_note == [id |-> NoteId(n), user_id |-> user_email, title |-> DefaultTitle,
                    text |-> text, created_at |-> n]
        reply(status, detail, body) ==
            Response("add", 0, user_email, "", fault, << >>, status, detail, body, 0)
    IN  /\ user_email # NoUser
        /\ n <= MaxNotes
        /\ UNCHANGED <<now, users>>
        /\ IF fault \in {"conn", "vec"}
           THEN /\ last' = reply(500, "vector_indexing_failed", << >>)
                /\ hist' = Append(hist, [user |-> user_email, ok |-> FALSE,
                                         deleted |-> FALSE])
                /\ UNCHANGED <<notes, vectors, note_rag_instances>>
           ELSE /\ fault = "none"
                /\ notes' = notes \cup {db_note}
                /\ note_rag_instances' = get_note_rag(user_email)
                /\ vectors' = add_note_vector(user_email, n, text)
                /\ last' = reply(200, "", <<[id |-> db_note.id, title |-> db_note.title,
                                            text |-> db_note.text]>>)
                /\ hist' = Append(hist, [user |-> user_email, ok |-> TRUE,
                                         deleted |-> FALSE])

\* POST /api/notes
add_note(token, text, fault) ==
    LET user_email == get_optional_user(token)
        n == Len(hist) + 1
        db_note == [id |-> NoteId(n), user_id |-> user_email, title |-> DefaultTitle,
                    text |-> text, created_at |-> n]
        reply(status, detail, body) ==
            Response("add", 0, user_email, "", fault, << >>, status, detail, body, 0)
    IN  IF user_email = NoUser
        THEN /\ fault = "none"
             /\ last' = reply(401, "auth_required", << >>)
             /\ UNCHANGED <<now, users, notes, vectors, note_rag_instances, hist>>
        ELSE IF fault = "db"
        THEN /\ last' = reply(500, "db_save_failed", << >>)       \* rollback
             /\ UNCHANGED <<now, users, notes, vectors, note_rag_instances, hist>>
        ELSE /\ n <= MaxNotes
             /\ notes' = notes \cup {db_note}                     \* commit
             /\ UNCHANGED <<now, users>>
             /\ IF fault = "conn"
                THEN \* NoteRAG() raises while the handle is built
                     /\ user_email \notin note_rag_instances
                     /\ last' = reply(500, "vector_indexing_failed", << >>)
                     /\ hist' = Append(hist, [user |-> user_email, ok |-> FALSE,
                                              deleted |-> FALSE])
                     /\ UNCHANGED <<vectors, note_rag_instances>>
                ELSE /\ note_rag_instances' = get_note_rag(user_email)
                     /\ IF fault = "vec"
                        THEN \* embedding or insert_nodes raises
                             /\ NumChunks(text) > 0
                             /\ last' = reply(500, "vector_indexing_failed", << >>)
                             /\ hist' = Append(hist, [user |-> user_email, ok |-> FALSE,
                                                      deleted |-> FALSE])
                             /\ UNCHANGED vectors
                        ELSE /\ fault = "none"
                             /\ vectors' = add_note_vector(user_email, n, text)
                             /\ last' = reply(200, "", <<[id |-> db_note.id,
                                                         title |-> db_note.title,
                                                         text |-> db_note.text]>>)
                             /\ hist' = Append(hist, [user |-> user_email, ok |-> TRUE,
                                                      deleted |-> FALSE])

\* DELETE /api/notes/{note_id}, lines 460-488: the status and detail of the
\* response, decided before the vector store is touched
DeleteOutcome(user_email, note_id, fault) ==
    IF user_email = NoUser THEN [status |-> 401, detail |-> "auth_required"]
    ELSE IF fault = "lookup" THEN [status |-> 500, detail |-> "db_access_failed"]
    ELSE IF NoteToDelete(note_id, user_email) = {}
    THEN [status |-> 404, detail |-> "not_found_or_not_owned"]
    ELSE IF fault = "db" THEN [status |-> 500, detail |-> "db_delete_failed"]
    ELSE [status |-> 204, detail |-> ""]

\* the handler as it would be if a failed vector cleanup failed the request
delete_note_VectorFatal(token, note_id, fault) ==
    LET user_email == get_optional_user(token)
        note_to_delete == NoteToDelete(note_id, user_email)
        outcome == DeleteOutcome(user_email, note_id, fault)
        reply(status, detail) ==
            Response("delete", 0, user_email, note_id, fault, << >>, status, detail, << >>, 0)
    IN  /\ UNCHANGED <<now, users>>
        /\ IF outcome.status # 204
           THEN /\ fault \in {"none", "lookup", "db"}
                /\ outcome.status \in {401, 404} => fault = "none"
                /\ last' = reply(outcome.status, outcome.detail)
                /\ UNCHANGED <<notes, vectors, note_rag_instances, hist>>
           ELSE IF fault \in {"conn", "vec"}
           THEN /\ last' = reply(500, "vector_delete_failed")
                /\ UNCHANGED <<notes, vectors, note_rag_instances, hist>>
           ELSE /\ fault = "none"
                /\ last' = reply(204, "")
                /\ notes' = notes \ note_to_delete
                /\ hist' = [hist EXCEPT ![note_id[2]].deleted = TRUE]
                /\ note_rag_instances' = get_note_rag(user_email)
                /\ vectors' = delete_note_vector(user_email, note_id)

\* the handler as it would be if it cleaned the vector store before it looked
\* the note up
delete_note_VectorFirst(token, note_id, fault) ==
    LET user_email == get_optional_user(token)
        note_to_delete == NoteToDelete(note_id, user_email)
        outcome == DeleteOutcome(user_email, note_id, fault)
    IN  /\ last' = Response("delete", 0, user_email, note_id, fault, << >>,
                            outcome.status, outcome.detail, << >>, 0)
        /\ UNCHANGED <<now, users>>
        /\ fault \in {"none", "lookup", "db"}
        /\ outcome.status \in {401, 404} => fault = "none"
        /\ IF user_email = NoUser
           THEN UNCHANGED <<notes, vectors, note_rag_instances, hist>>
           ELSE /\ note_rag_instances' = get_note_rag(user_email)
                /\ vectors' = delete_note_vector(user_email, note_id)
                /\ IF outcome.status # 204
                   THEN UNCHANGED <<notes, hist>>
                   ELSE /\ notes' = notes \ note_to_delete
                        /\ hist' = [hist EXCEPT ![note_id[2]].deleted = TRUE]

\* DELETE /api/notes/{note_id}
delete_note(token, note_id, fault) ==
    LET user_email == get_optional_user(token)
        note_to_delete == NoteToDelete(note_id, user_email)
        outcome == DeleteOutcome(user_email, note_id, fault)
        reply == Response("delete", 0, user_email, note_id, fault, << >>,
                          outcome.status, outcome.detail, << >>, 0)
    IN  /\ UNCHANGED <<now, users>>
        /\ IF outcome.status # 204
           THEN /\ fault \in {"none", "lookup", "db"}
                /\ outcome.status \in {401, 404} => fault = "none"
                /\ last' = reply
                /\ UNCHANGED <<notes, vectors, note_rag_instances, hist>>
           ELSE /\ notes' = notes \ note_to_delete                \* commit
                /\ hist' = [hist EXCEPT ![note_id[2]].deleted = TRUE]
                /\ IF fault = "conn"
                   THEN \* NoteRAG() raises; the handler swallows it
                        /\ user_email \notin note_rag_instances
                        /\ last' = reply
                        /\ UNCHANGED <<vectors, note_rag_instances>>
                   ELSE LET r == DeleteVector(user_email, note_id, fault)
                        IN  /\ fault \in {"none", "vec"}
                            /\ note_rag_instances' = get_note_rag(user_email)
                            /\ vectors' = r.vectors
                            /\ last' = [reply EXCEPT !.success = r.success]

\* GET /api/notes
get_notes(token, fault) ==
    LET user_email == get_optional_user(token)
        reply(status, detail, body) ==
            Response("list", token.exp, user_email, "", fault, << >>, status, detail, body, 0)
    IN  /\ UNCHANGED <<now, users, notes, vectors, note_rag_instances, hist>>
        /\ IF user_email = NoUser
           THEN fault = "none" /\ last' = reply(200, "", << >>)
           ELSE IF fault = "db"
           THEN last' = reply(500, "db_fetch_failed", << >>)
           ELSE /\ fault = "none"
                /\ \E notes_from_db \in OrderedByCreatedDesc(NotesOfUser(user_email)) :
                      last' = reply(200, "",
                                    [i \in 1..Len(notes_from_db) |->
                                        [id |-> notes_from_db[i].id,
                                         title |-> notes_from_db[i].title,
                                         text |-> notes_from_db[i].text]])

\* GET /api/search
search_user_notes(token, q, limit, fault) ==
    LET user_email == verify_token(token, "none")
        reply(hits, status, detail, body) ==
            Response("search", 0, user_email, q, fault, DocIds(hits), status, detail, body, 0)
    IN  /\ UNCHANGED <<now, users, notes, vectors, hist>>
        /\ IF token = NoToken \/ user_email = NoUser
           THEN /\ fault = "none"
                /\ last' = reply(<< >>, 401, "invalid_credentials", << >>)
                /\ UNCHANGED note_rag_instances
           ELSE IF fault = "conn"
           THEN /\ user_email \notin note_rag_instances
                /\ last' = reply(<< >>, 500, "search_failed", << >>)
                /\ UNCHANGED note_rag_instances
           ELSE /\ note_rag_instances' = get_note_rag(user_email)
                /\ IF fault = "retrieve"
                   THEN last' = reply(<< >>, 200, "", search_notes(user_email, << >>, fault))
                   ELSE /\ fault \in {"none", "db"}
                        /\ \E retrieved \in Retrievals(user_email, limit) :
                              /\ fault = "db" => retrieved # << >>
                              /\ last' = reply(retrieved, 200, "",
                                               search_notes(user_email, retrieved, fault))

\* GET /api/query
query_user_notes(token, q, top_k, fault) ==
    LET user_email == verify_token(token, "none")
        reply(hits, status, detail, body, llm_calls) ==
            Response("query", 0, user_email, "", fault, DocIds(hits), status, detail, body,
                     llm_calls)
    IN  /\ UNCHANGED <<now, users, notes, vectors, hist>>
        /\ IF token = NoToken \/ user_email = NoUser
           THEN /\ fault = "none"
                /\ last' = reply(<< >>, 401, "invalid_credentials", << >>, 0)
                /\ UNCHANGED note_rag_instances
           ELSE IF fault = "conn"
           THEN /\ user_email \notin note_rag_instances
                /\ last' = reply(<< >>, 500, "query_failed", << >>, 0)
                /\ UNCHANGED note_rag_instances
           ELSE /\ note_rag_instances' = get_note_rag(user_email)
                /\ IF fault = "retrieve"
                   THEN LET r == query_notes(user_email, << >>, fault)
                        IN  last' = reply(<< >>, 200, r.response, r.source_nodes, r.llm_calls)
                   ELSE /\ fault \in {"none", "db", "llm"}
                        /\ \E retrieved \in Retrievals(user_email, top_k) :
                              LET r == query_notes(user_email, retrieved, fault)
                              IN  /\ fault = "db" => retrieved # << >>
                                  /\ fault = "llm" =>
                                        /\ retrieved # << >>
                                        /\ NotesFromDb({retrieved[i].doc_id :
                                                           i \in 1..Len(retrieved)},
                                                       user_email) # {}
                                  /\ \E context \in (IF r.llm_calls = 0 THEN {<< >>}
                                                     ELSE context_str(user_email,
                                                                      retrieved)) :
                                        last' = [reply(retrieved, 200, r.response,
                                                       r.source_nodes, r.llm_calls)
                                                 EXCEPT !.context = context]

Faults == {"none", "db", "lookup", "conn", "vec", "retrieve", "llm"}
Limits == 1..MaxLimit

\* The event loop serves one request at a time: a handler runs once the
\* response of the previous request has left.  No handler of a note reads a
\* password, so the clients of Spec register with one; the clients of
\* AuthSpec register and log in with both.
Register ==
    /\ last = Idle
    /\ \E email \in Users, fault \in Faults : register_user(email, Password1, fault)
    /\ UNCHANGED <<loopvars, docstore>>
AddNote ==
    /\ last = Idle
    /\ \E token \in ClientTokens, text \in Texts, fault \in Faults :
          add_note(token, text, fault)
    /\ UNCHANGED <<authvars, loopvars, docstore>>
DeleteNote ==
    /\ last = Idle
    /\ \E token \in ClientTokens, note_id \in NoteIds, fault \in Faults :
          delete_note(token, note_id, fault)
    /\ UNCHANGED <<authvars, loopvars, docstore>>
GetNotes ==
    /\ last = Idle
    /\ \E token \in ClientTokens, fault \in Faults : get_notes(token, fault)
    /\ UNCHANGED <<authvars, loopvars, docstore>>
Search ==
    /\ last = Idle
    /\ \E token \in ClientTokens, q \in Texts, limit \in Limits, fault \in Faults :
          search_user_notes(token, q, limit, fault)
    /\ UNCHANGED <<authvars, loopvars, docstore>>
Query ==
    /\ last = Idle
    /\ \E token \in ClientTokens, q \in Texts, top_k \in Limits, fault \in Faults :
          query_user_notes(token, q, top_k, fault)
    /\ UNCHANGED <<authvars, loopvars, docstore>>

\* the response leaves the server
Respond ==
    /\ last # Idle
    /\ last' = Idle
    /\ UNCHANGED <<now, users, notes, vectors, note_rag_instances, hist>>
    /\ UNCHANGED <<authvars, loopvars, docstore>>

Next == Register \/ AddNote \/ DeleteNote \/ GetNotes \/ Search \/ Query \/ Respond

Spec == Init /\ [][Next]_vars

\* ------------------------------------------------------- accounts and tokens
\* User.hashed_password of a user without a password (NULL)
NoHash == << >>
\* the password field of a login form left empty
NoPassword == ""

\* authenticate_user as it would be if it stamped last_login before it
\* checked the password
authenticate_user_StampFirst(email, password, fault) ==
    IF get_user(email) = {} THEN [user |-> NoUser, accounts |-> accounts]
    ELSE LET stamped == [accounts EXCEPT ![email].last_login = now]
         IN  IF accounts[email].is_active
                /\ password # NoPassword
                /\ Verify(password, accounts[email].hashed_password)
             THEN [user |-> email, accounts |-> stamped]
             ELSE [user |-> NoUser, accounts |-> stamped]

\* auth.authenticate_user: the user it returns (NoUser for None) and the
\* rows of the table afterwards; with fault = "db" the commit of last_login
\* raises and is rolled back, and the user is returned all the same
authenticate_user(email, password, fault) ==
    LET rejected == [user |-> NoUser, accounts |-> accounts]
    IN  IF get_user(email) = {} THEN rejected
        ELSE IF ~accounts[email].is_active THEN rejected
        ELSE LET hashed_password == accounts[email].hashed_password
             IN  IF password # NoPassword /\ hashed_password # NoHash
                    /\ ~Verify(password, hashed_password)
                 THEN rejected
                 ELSE IF password # NoPassword /\ hashed_password = NoHash
                 THEN rejected
                 ELSE IF password = NoPassword /\ hashed_password # NoHash
                 THEN rejected
                 ELSE [user |-> email,
                       accounts |-> IF fault = "db" THEN accounts
                                    ELSE [accounts EXCEPT ![email].last_login = now]]

\* POST /token; with fault = "lookup" the query of get_user raises and the
\* request ends with 500
login_for_access_token(username, password, fault) ==
    LET reply(exp, status, detail) ==
            Response("login", exp, username, password, fault, << >>, status, detail,
                     << >>, 0)
        r == authenticate_user(username, password, fault)
    IN  /\ UNCHANGED <<now, users, notes, vectors, note_rag_instances, hist>>
        /\ IF fault = "lookup"
           THEN /\ last' = reply(0, 500, "internal_error")
                /\ UNCHANGED <<accounts, issued>>
           ELSE /\ fault \in {"none", "db"}
                /\ fault = "db" => r.user # NoUser
                /\ accounts' = r.accounts
                /\ IF r.user = NoUser
                   THEN /\ last' = reply(0, 401, "Incorrect email or password")
                        /\ UNCHANGED issued
                   ELSE /\ issued' = issued \cup {create_access_token(r.user, now)}
                        /\ last' = reply(create_access_token(r.user, now).exp, 200, "")

\* The tokens a client can present: the ones handed out so far, whatever
\* became of their users, a forged one per email, and a signed one without
\* a subject.
PresentedTokens ==
    issued
    \cup {[sub |-> e, exp |-> now + 1, sig |-> FALSE] : e \in Users}
    \cup {[sub |-> NoUser, exp |-> now + 1, sig |-> TRUE]}

\* GET /api/user/me behind main.get_current_user
get_user_info(token, fault) ==
    LET user_email == verify_token(token, fault)
        reply(status, detail) ==
            Response("me", token.exp, user_email, token, fault, << >>, status, detail,
                     << >>, 0)
    IN  /\ UNCHANGED <<now, users, notes, vectors, note_rag_instances, hist>>
        /\ UNCHANGED <<accounts, issued>>
        /\ fault \in {"none", "lookup"}
        /\ IF user_email = NoUser
           THEN last' = reply(401, "invalid_credentials")
           ELSE last' = reply(200, "")

AuthRegister ==
    /\ last = Idle
    /\ \E email \in Users, password \in Passwords, fault \in Faults :
          register_user(email, password, fault)
    /\ UNCHANGED <<loopvars, docstore>>
Login ==
    /\ last = Idle
    /\ \E username \in Users, password \in Passwords \cup {NoPassword}, fault \in Faults :
          login_for_access_token(username, password, fault)
    /\ UNCHANGED <<loopvars, docstore>>
GetUserInfo ==
    /\ last = Idle
    /\ \E token \in PresentedTokens, fault \in Faults : get_user_info(token, fault)
    /\ UNCHANGED <<loopvars, docstore>>

\* datetime.now advances between two requests
Tick ==
    /\ last = Idle
    /\ now < MaxTime
    /\ now' = now + 1
    /\ UNCHANGED <<users, notes, vectors, note_rag_instances, hist, last>>
    /\ UNCHANGED <<authvars, loopvars, docstore>>

\* The rows of the users table are read anew by every verify_token and
\* authenticate_user; the server has no endpoint that removes or deactivates
\* a user, the database's administrator does it.
RemoveUser ==
    /\ last = Idle
    /\ \E email \in users :
          /\ users' = users \ {email}
          /\ accounts' = [e \in users \ {email} |-> accounts[e]]
    /\ UNCHANGED <<now, notes, vectors, note_rag_instances, hist, last, issued>>
    /\ UNCHANGED <<loopvars, docstore>>
DeactivateUser ==
    /\ last = Idle
    /\ \E email \in users :
          /\ accounts[email].is_active
          /\ accounts' = [accounts EXCEPT ![email].is_active = FALSE]
    /\ UNCHANGED <<now, users, notes, vectors, note_rag_instances, hist, last, issued>>
    /\ UNCHANGED <<loopvars, docstore>>

AuthNext ==
    AuthRegister \/ Login \/ GetUserInfo \/ Tick \/ RemoveUser \/ DeactivateUser
    \/ Respond

AuthSpec == Init /\ [][AuthNext]_vars

\* --------------------------------------------- authentication, by the row
\* authenticate_user for every row it can find in the users table: a user
\* with one of the passwords or with no password set (the case of its
\* second branch), active or not.  The empty password stands for both the
\* empty string and None, which `not password` does not tell apart.
UserRows ==
    [hashed_password : {NoHash} \cup {Hash(p) : p \in Passwords},
     is_active : BOOLEAN, last_login : {NoLogin}]

LoginInit ==
    /\ now = 0
    /\ \E registered \in SUBSET Users :
          /\ users = registered
          /\ accounts \in [registered -> UserRows]
    /\ notes = {}
    /\ vectors = {}
    /\ note_rag_instances = {NoUser}
    /\ hist = << >>
    /\ last = Idle
    /\ issued = {}
    /\ tasks = [r \in Reqs |-> NewTask]
    /\ running = 0
    /\ constructed = <<NoUser>>
    /\ cached = [k \in Users \cup {NoUser} |-> IF k = NoUser THEN 1 ELSE 0]
    /\ docstore = << >>

LoginNext == Login \/ Respond

LoginSpec == LoginInit /\ [][LoginNext]_vars

\* ------------------------------------------- the legacy single-user server
\* python_server/server.py over the NoteRAG of python_server/core.py.  A
\* document is kept under its note id, its chunks under node ids of their own.

\* the timestamps a client sends with a note
Timestamps == {0, DedupWindowMs}

\* the documents in the index: the keys of docstore/ref_doc_info
LegacyNotes == {n \in 1..Len(docstore) : docstore[n].present}

LegacyNote(n) == [id |-> NoteId(n), title |-> DefaultTitle, text |-> docstore[n].text]

\* core.NoteRAG.get_all_notes: the documents, newest timestamp first; sorted()
\* keeps the order of insertion among equal timestamps
core_get_all_notes ==
    CHOOSE s \in [1..Cardinality(LegacyNotes) -> LegacyNotes] :
        \A i, j \in 1..Cardinality(LegacyNotes) :
            i < j => \/ docstore[s[i]].timestamp > docstore[s[j]].timestamp
                     \/ /\ docstore[s[i]].timestamp = docstore[s[j]].timestamp
                        /\ s[i] < s[j]

\* core.NoteRAG.add_note, lines 160-168: the documents add_note takes the new
\* note for a duplicate of
Duplicates(text, timestamp) ==
    {n \in LegacyNotes :
        /\ docstore[n].text = text
        /\ (IF docstore[n].timestamp >= timestamp
            THEN docstore[n].timestamp - timestamp
            ELSE timestamp - docstore[n].timestamp) < DedupWindowMs}

\* core.NoteRAG.get_note: docstore.get_node(note_id) looks among the nodes;
\* a missing node and every failure give None (the empty set)
core_get_note(note_id) ==
    {n \in LegacyNotes : \E c \in 1..NumChunks(docstore[n].text) : NodeId(n, c) = note_id}

\* core.NoteRAG.delete_note: whether it returns True, and the index
\* afterwards; when persist raises (fault = "persist") the entries are gone
\* from memory already and False is returned
core_delete_note(note_id, fault) ==
    LET found == {n \in LegacyNotes : NoteId(n) = note_id}
    IN  IF found = {} THEN [success |-> FALSE, docstore |-> docstore]
        ELSE [success |-> fault # "persist",
              docstore |-> [n \in 1..Len(docstore) |->
                              IF n \in found THEN [docstore[n] EXCEPT !.present = FALSE]
                              ELSE docstore[n]]]

\* query.lower() in text.lower(), for the texts of the model
Contains(text, query) == query = EmptyText \/ query = text

\* core.NoteRAG.search_notes: the results it can return.  With the embedding
\* model at hand every ranking of the documents is possible; when an
\* embedding call raises (fault = "embed") the documents that hold the query
\* are returned in the order of get_all_notes.
core_search_notes(query, limit, fault) ==
    LET all_notes == core_get_all_notes
        m == Min(limit, Cardinality(LegacyNotes))
    IN  IF LegacyNotes = {} THEN {<< >>}
        ELSE IF fault = "embed"
        THEN LET matches == SelectSeq(all_notes,
                                      LAMBDA n : \/ Contains(docstore[n].text, query)
                                                 \/ Contains(DefaultTitle, query))
             IN  {SubSeq(matches, 1, Min(limit, Len(matches)))}
        ELSE {s \in [1..m -> LegacyNotes] : \A i, j \in 1..m : i # j => s[i] # s[j]}

\* an endpoint that has raised nothing
NoException == [status |-> 200, detail |-> ""]

\* try: ... raise HTTPException(404, detail) ... as the endpoints would answer
\* if the except clause let an HTTPException pass
TryExcept_PassHTTPException(raised, is_http_exception) ==
    IF raised = NoException \/ is_http_exception THEN raised
    ELSE [status |-> 500, detail |-> raised.detail]

\* try: ... except Exception as e: raise HTTPException(500, str(e)), the
\* frame of every endpoint of server.py.  HTTPException is an Exception, so the
\* clause catches the endpoint's own HTTPException as well; str(e) of it
\* is "<status>: <detail>".
TryExcept(raised, is_http_exception) ==
    IF raised = NoException THEN raised
    ELSE [status |-> 500,
          detail |-> IF is_http_exception THEN <<raised.status, raised.detail>>
                     ELSE raised.detail]

LegacyResponse(op, arg, fault, outcome, body) ==
    Response(op, 0, NoUser, arg, fault, << >>, outcome.status, outcome.detail, body, 0)

\* POST /api/notes of server.py; with fault = "insert" index.insert raises
server_add_note(text, timestamp, fault) ==
    LET n == Len(docstore) + 1
        dup == Duplicates(text, timestamp)
    IN  /\ fault \in {"none", "insert"}
        /\ IF dup # {}
           THEN /\ fault = "none"
                /\ last' = LegacyResponse("legacy_add", text, fault, NoException,
                                          <<LegacyNote(CHOOSE d \in dup : TRUE)>>)
                /\ UNCHANGED docstore
           ELSE IF fault = "insert"
           THEN /\ last' = LegacyResponse("legacy_add", text, fault,
                                          TryExcept([status |-> 500,
                                                     detail |-> "insert failed"], FALSE),
                                          << >>)
                /\ UNCHANGED docstore
           ELSE /\ n <= MaxNotes
                /\ docstore' = Append(docstore, [text |-> text, timestamp |-> timestamp,
                                                 present |-> TRUE])
                /\ last' = LegacyResponse("legacy_add", text, fault, NoException,
                                          <<[id |-> NoteId(n), title |-> DefaultTitle,
                                             text |-> text]>>)

\* GET /api/notes/search of server.py
server_search_notes(query, limit, fault) ==
    /\ fault \in {"none", "embed"}
    /\ fault = "embed" => LegacyNotes # {}
    /\ UNCHANGED docstore
    /\ \E results \in core_search_notes(query, limit, fault) :
          IF results = << >>
          THEN last' = LegacyResponse("legacy_search", query, fault,
                                      TryExcept([status |-> 404,
                                                 detail |-> "No matching notes found"],
                                                TRUE),
                                      << >>)
          ELSE last' = LegacyResponse("legacy_search", query, fault, NoException,
                                      [i \in 1..Len(results) |-> LegacyNote(results[i])])

\* GET /api/notes/{note_id} of server.py
server_get_note(note_id) ==
    LET note == core_get_note(note_id)
    IN  /\ UNCHANGED docstore
        /\ IF note = {}
           THEN last' = LegacyResponse("legacy_get", note_id, "none",
                                       TryExcept([status |-> 404,
                                                  detail |-> "Note not found"], TRUE),
                                       << >>)
           ELSE last' = LegacyResponse("legacy_get", note_id, "none", NoException,
                                       <<[LegacyNote(CHOOSE n \in note : TRUE)
                                            EXCEPT !.id = note_id]>>)

\* GET /api/notes of server.py
server_get_all_notes ==
    /\ UNCHANGED docstore
    /\ last' = LegacyResponse("legacy_list", "", "none", NoException,
                              [i \in 1..Len(core_get_all_notes) |->
                                  LegacyNote(core_get_all_notes[i])])

\* DELETE /api/notes/{note_id} of server.py
server_delete_note(note_id, fault) ==
    LET r == core_delete_note(note_id, fault)
    IN  /\ fault \in {"none", "persist"}
        /\ fault = "persist" => r.docstore # docstore
        /\ docstore' = r.docstore
        /\ IF ~r.success
           THEN last' = LegacyResponse("legacy_delete", note_id, fault,
                                       TryExcept([status |-> 404,
                                                  detail |-> "Note not found"], TRUE),
                                       << >>)
           ELSE last' = LegacyResponse("legacy_delete", note_id, fault, NoException, << >>)

LegacyFaults == {"none", "insert", "embed", "persist"}
\* the ids a client asks for: ids of notes, and the id of a chunk
LegacyIds == NoteIds \cup {NodeId(1, 1)}
legacyframe == <<now, users, notes, vectors, note_rag_instances, hist, authvars, loopvars>>

LegacyAdd ==
    /\ last = Idle
    /\ \E text \in Texts, timestamp \in Timestamps, fault \in LegacyFaults :
          server_add_note(text, timestamp, fault)
    /\ UNCHANGED legacyframe
LegacySearch ==
    /\ last = Idle
    /\ \E query \in Texts, limit \in Limits, fault \in LegacyFaults :
          server_search_notes(query, limit, fault)
    /\ UNCHANGED legacyframe
LegacyGet ==
    /\ last = Idle
    /\ \E note_id \in LegacyIds : server_get_note(note_id)
    /\ UNCHANGED legacyframe
LegacyList ==
    /\ last = Idle
    /\ server_get_all_notes
    /\ UNCHANGED legacyframe
LegacyDelete ==
    /\ last = Idle
    /\ \E note_id \in LegacyIds, fault \in LegacyFaults : server_delete_note(note_id, fault)
    /\ UNCHANGED legacyframe

LegacyNext ==
    LegacyAdd \/ LegacySearch \/ LegacyGet \/ LegacyList \/ LegacyDelete \/ Respond

LegacySpec == Init /\ [][LegacyNext]_vars

\* ------------------------------------------- the construction of a handle
\* NoteRAG(user_email) for the identities a caller of the class can pass: the
\* strings over letters, '-', '_' and characters outside the class, short
\* ones and ones long enough for the name to reach the limit
IdChars == {"a", "-", "_", ".", "@"}
ShortIdentities == UNION {[1..n -> IdChars] : n \in 0..MaxIdLen}
Pad == [i \in 1..PadLen |-> "a"]
Identities == ShortIdentities \cup {Pad \o s : s \in ShortIdentities}

\* NoteRAG.__init__, lines 155-169: the handle is bound to the collection
\* named after the identity
NewHandle ==
    /\ last = Idle
    /\ \E user_email \in Identities :
          last' = Response("init", 0, user_email, CollectionName(user_email), "none",
                           << >>, 0, "", << >>, 0)
    /\ UNCHANGED <<now, users, notes, vectors, note_rag_instances, hist, authvars,
                   loopvars, docstore>>

NameNext == NewHandle \/ Respond

NameSpec == Init /\ [][NameNext]_vars

\* ------------------------------------------------- the event loop, by line
\* Requests are coroutines of one event loop.  A coroutine keeps the loop
\* until it reaches an await; the handlers of main.py call get_note_rag and
\* the NoteRAG methods without one, so a request can be parked only in the
\* middleware, at `await call_next(request)`.

\* the positions as they would be if a request could be parked anywhere
AtAwait_Anywhere(pc) == pc \notin {"new", "done"}

\* the positions of a request at which its coroutine gives up the loop
AtAwait(pc) == pc = "middleware"

\* two users have registered; no request has been served yet
ConcInit ==
    /\ now = 0
    /\ users = Users
    /\ accounts = [e \in Users |-> [hashed_password |-> Hash(Password1),
                                     is_active |-> TRUE, last_login |-> NoLogin]]
    /\ issued = {create_access_token(e, 0) : e \in Users}
    /\ notes = {}
    /\ vectors = {}
    /\ note_rag_instances = {NoUser}
    /\ hist = << >>
    /\ last = Idle
    /\ tasks = [r \in Reqs |-> NewTask]
    /\ running = 0
    /\ constructed = <<NoUser>>
    /\ cached = [k \in Users \cup {NoUser} |-> IF k = NoUser THEN 1 ELSE 0]
    /\ docstore = << >>

\* a request with a valid token of user_email is received; its coroutine
\* waits in the middleware
Arrive(r, user_email) ==
    /\ tasks[r].pc = "new"
    /\ tasks' = [tasks EXCEPT ![r] = [user |-> user_email, pc |-> "middleware",
                                      obj |-> 0, handle |-> 0]]
    /\ UNCHANGED <<running, constructed, cached, note_rag_instances>>
    /\ UNCHANGED storevars

\* the loop is free and picks a waiting coroutine
Resume(r) ==
    /\ running = 0
    /\ tasks[r].pc \notin {"new", "done"}
    /\ running' = r
    /\ UNCHANGED <<tasks, constructed, cached, note_rag_instances>>
    /\ UNCHANGED storevars

\* the running coroutine is at an await and gives up the loop
Suspend(r) ==
    /\ running = r
    /\ AtAwait(tasks[r].pc)
    /\ running' = 0
    /\ UNCHANGED <<tasks, constructed, cached, note_rag_instances>>
    /\ UNCHANGED storevars

\* call_next runs the handler up to its call of get_note_rag
Enter(r) ==
    /\ running = r
    /\ tasks[r].pc = "middleware"
    /\ tasks' = [tasks EXCEPT ![r].pc = "check"]
    /\ UNCHANGED <<running, constructed, cached, note_rag_instances>>
    /\ UNCHANGED storevars

\* main.py:105, if user_email not in note_rag_instances
Check(r) ==
    /\ running = r
    /\ tasks[r].pc = "check"
    /\ tasks' = [tasks EXCEPT ![r].pc = IF tasks[r].user \notin note_rag_instances
                                        THEN "construct" ELSE "return"]
    /\ UNCHANGED <<running, constructed, cached, note_rag_instances>>
    /\ UNCHANGED storevars

\* main.py:107, the right-hand side NoteRAG(user_email=user_email): the
\* constructor gets or creates the collection and builds the handle, or
\* raises because the vector backend cannot be reached (fault = "conn"), and
\* the request ends without a handle
Construct(r, fault) ==
    /\ running = r
    /\ tasks[r].pc = "construct"
    /\ IF fault = "conn"
       THEN /\ tasks' = [tasks EXCEPT ![r].pc = "done"]
            /\ running' = 0
            /\ UNCHANGED constructed
       ELSE /\ fault = "none"
            /\ constructed' = Append(constructed, tasks[r].user)
            /\ tasks' = [tasks EXCEPT ![r].pc = "store",
                                      ![r].obj = Len(constructed) + 1]
            /\ UNCHANGED running
    /\ UNCHANGED <<cached, note_rag_instances>>
    /\ UNCHANGED storevars

\* main.py:107, the assignment note_rag_instances[user_email] = ...
Store(r) ==
    /\ running = r
    /\ tasks[r].pc = "store"
    /\ note_rag_instances' = note_rag_instances \cup {tasks[r].user}
    /\ cached' = [cached EXCEPT ![tasks[r].user] = tasks[r].obj]
    /\ tasks' = [tasks EXCEPT ![r].pc = "return"]
    /\ UNCHANGED <<running, constructed>>
    /\ UNCHANGED storevars

\* main.py:109, return note_rag_instances[user_email]; the handler goes on
\* with the handle and ends without another await
Return(r) ==
    /\ running = r
    /\ tasks[r].pc = "return"
    /\ tasks' = [tasks EXCEPT ![r].pc = "done", ![r].handle = cached[tasks[r].user]]
    /\ running' = 0
    /\ UNCHANGED <<constructed, cached, note_rag_instances>>
    /\ UNCHANGED storevars

ConcNext ==
    \E r \in Reqs :
        \/ \E user_email \in users : Arrive(r, user_email)
        \/ Resume(r)
        \/ Suspend(r)
        \/ Enter(r)
        \/ Check(r)
        \/ \E fault \in {"none", "conn"} : Construct(r, fault)
        \/ Store(r)
        \/ Return(r)

ConcSpec == ConcInit /\ [][ConcNext]_vars

\* ------------------------------------------------------------- properties
\* the committed note a note id names: its number in the history
Num(note_id) == note_id[2]
Committed(note_id) == note_id[1] = "note" /\ Num(note_id) \in 1..Len(hist)
\* who committed the note, whatever became of its row
OwnerOf(note_id) == hist[Num(note_id)].user
\* the note is in the relational store now
Live(note_id) == Committed(note_id) /\ ~hist[Num(note_id)].deleted
BodyIds == {last.body[i].id : i \in 1..Len(last.body)}
HitIds == Range(last.hits)

C2_SourcesAreLiveOwnNotes ==
    last.op = "query" =>
        \A id \in BodyIds : Live(id) /\ OwnerOf(id) = last.user

\* C3: the listing of B holds only notes of B, and holds every note of B
\* that is in the relational store.
C3_ListingReturnsOnlyOwnNotes ==
    (last.op = "list" /\ last.status = 200) =>
        /\ \A id \in BodyIds : Committed(id) /\ OwnerOf(id) = last.user
        /\ \A n \in 1..Len(hist) :
              (hist[n].user = last.user /\ ~hist[n].deleted) => NoteId(n) \in BodyIds

\* B has listed its notes while another user A had a note in the store
C3_Witness ==
    /\ last.op = "list" /\ last.status = 200 /\ last.body # << >>
    /\ \E r \in notes : r.user_id # last.user

\* C4: for a requester B, deleting an id that another user owns and deleting
\* an id nobody owns end in the same response (404), whatever step fails.
C4_DeleteHidesForeignNotes ==
    \A B \in users, n1, n2 \in NoteIds, fault \in Faults :
        ( /\ \E r \in notes : r.id = n1 /\ r.user_id # B
          /\ ~\E r \in notes : r.id = n2 )
        => /\ DeleteOutcome(B, n1, fault) = DeleteOutcome(B, n2, fault)
           /\ fault = "none" => DeleteOutcome(B, n1, fault).status = 404

\* B's delete of a note of A has been answered with 404
C4_Witness ==
    /\ last.op = "delete" /\ last.status = 404
    /\ \E r \in notes : r.id = last.arg /\ r.user_id # last.user

\* C5: a delete answered with 404 changes neither the relational store nor
\* any vector collection.
C5_RejectedDeleteChangesNothing ==
    [][(last'.op = "delete" /\ last'.status = 404 /\ last = Idle)
          => (notes' = notes /\ vectors' = vectors)]_vars

\* B's delete of a note of A, whose vectors are in the collection B's handle
\* is bound to, has been answered with 404; the note is still A's
C5_Witness ==
    /\ last.op = "delete" /\ last.status = 404
    /\ \E r \in notes :
          /\ r.id = last.arg /\ r.user_id # last.user
          /\ \E v \in Collection(last.user) : v.doc_id = r.id

C7_SearchFindsAddedNote ==
    ( /\ last.op = "search" /\ last.status = 200 /\ last.fault = "none"
      /\ last.hits # << >>
      /\ \E r \in notes :
            /\ r.id = last.hits[1] /\ r.user_id = last.user
            /\ r.text = last.arg /\ hist[Num(r.id)].ok )
    => last.hits[1] \in BodyIds

C10_ModelCalledOnceIffResolved ==
    last.op = "query" =>
        LET resolved == {id \in HitIds : Live(id) /\ OwnerOf(id) = last.user}
        IN  /\ last.llm_calls \in {0, 1}
            /\ resolved = {} => last.llm_calls = 0
            /\ (resolved # {} /\ last.fault # "db") => last.llm_calls = 1

\* an answer has been given for hits none of which resolved
C10_Witness ==
    /\ last.op = "query" /\ last.status = 200 /\ last.fault = "none"
    /\ last.hits # << >>
    /\ \A id \in HitIds : ~(Live(id) /\ OwnerOf(id) = last.user)

C12_IndexingFailureKeepsNote ==
    /\ (last.op = "add" /\ last.status = 500) =>
          /\ last.fault \in {"conn", "vec"} <=> last.detail = "vector_indexing_failed"
          /\ last.fault = "db" <=> last.detail = "db_save_failed"
    /\ \A n \in 1..Len(hist) :
          (~hist[n].ok /\ ~hist[n].deleted) =>
              \E r \in NotesOfUser(hist[n].user) : r.id = NoteId(n)
    /\ (last.op = "list" /\ last.status = 200) =>
          \A n \in 1..Len(hist) :
              (hist[n].user = last.user /\ ~hist[n].ok /\ ~hist[n].deleted)
                  => NoteId(n) \in BodyIds

\* the owner has listed a note whose indexing had failed
C12_Witness ==
    /\ last.op = "list" /\ last.status = 200
    /\ \E n \in 1..Len(hist) :
          /\ hist[n].user = last.user /\ ~hist[n].ok
          /\ NoteId(n) \in BodyIds
          /\ ~\E v \in vectors : v.doc_id = NoteId(n)

\* C13: when the relational step of an add or of a delete fails, the request
\* ends with an error and neither store has changed: the transaction is
\* rolled back and no vector insert or delete is attempted, nor is a handle
\* fetched for one.
C13_RelationalFailureChangesNothing ==
    [][(last = Idle /\ last'.op \in {"add", "delete"} /\ last'.fault \in {"db", "lookup"})
          => /\ last'.status = 500
             /\ notes' = notes /\ vectors' = vectors
             /\ note_rag_instances' = note_rag_instances]_vars

\* the owner's delete of a note with vectors in the collection has failed
\* at the relational delete; the row is still there
C13_Witness ==
    /\ last.op = "delete" /\ last.fault = "db" /\ last.status = 500
    /\ \E r \in NotesOfUser(last.user) :
          /\ r.id = last.arg
          /\ \E v \in Collection(last.user) : v.doc_id = r.id

\* C14: when the vector cleanup of the owner's delete fails (the handle cannot
\* be built, or delete_note_vector returns False), the request is still
\* answered with 204, the note is gone from the relational store, and no
\* listing holds it.
C14_VectorCleanupFailureIsNotAnError ==
    /\ (last.op = "delete" /\ last.fault \in {"conn", "vec"}) =>
          /\ last.status = 204
          /\ ~\E r \in notes : r.id = last.arg
    /\ (last.op = "list" /\ last.status = 200) =>
          \A n \in 1..Len(hist) : hist[n].deleted => NoteId(n) \notin BodyIds

\* the owner's delete has been answered with 204 although the vector cleanup
\* failed; the vectors of the note are still in the collection
C14_Witness ==
    /\ last.op = "delete" /\ last.fault = "vec" /\ last.status = 204
    /\ hist[Num(last.arg)].user = last.user
    /\ \E v \in Collection(last.user) : v.doc_id = last.arg

\* C15: when the call of the language model fails during answer, the failure
\* stays inside query_notes: the result is the fixed error response with an
\* empty source list, and the endpoint answers with success.
C15_ModelFailureIsContained ==
    (last.op = "query" /\ last.fault = "llm") =>
        /\ last.status = 200
        /\ last.detail = "error"
        /\ last.body = << >>

\* an answer has been given for hits that resolved to a note of the requester
\* while the one call of the language model failed
C15_Witness ==
    /\ last.op = "query" /\ last.fault = "llm" /\ last.status = 200
    /\ last.llm_calls = 1
    /\ \E id \in HitIds : Live(id) /\ OwnerOf(id) = last.user

\* the hit names a note of the requester that is in the relational store
ResolvableHit(id) == Live(id) /\ OwnerOf(id) = last.user

\* C17: a search leaves out the hits that have no note of the requester in
\* the relational store, raises no error for them, and returns the other
\* hits in the retriever's order.
C17_SearchSkipsOnlyUnresolvedHits ==
    ( /\ last.op = "search" /\ last.fault = "none" /\ last.user # NoUser
      /\ \E id \in HitIds : ~ResolvableHit(id) )
    => /\ last.status = 200
       /\ [i \in 1..Len(last.body) |-> last.body[i].id]
             = SelectSeq(last.hits, ResolvableHit)

\* the number of NoteRAG objects built for a key
Built(user_email) ==
    Cardinality({i \in 1..Len(constructed) : constructed[i] = user_email})

\* C16: however the requests of a new user interleave, at most one handle is
\* built for the user (one get-or-create of the collection), every request
\* gets that handle, and a handle once cached stays the user's handle.
C16_OneHandlePerUser ==
    [][\A user_email \in Users :
          /\ Built(user_email)' <= 1
          /\ cached[user_email] # 0 => cached'[user_email] = cached[user_email]
          /\ \A r \in Reqs :
                (tasks'[r].user = user_email /\ tasks'[r].handle # 0)
                    => tasks'[r].handle = cached'[user_email]]_vars

\* two requests of one new user were in the loop together: one has built
\* and cached the handle, the other has waited in the middleware meanwhile,
\* found the handle cached and got the same one
C16_Witness ==
    \E r1, r2 \in Reqs :
        /\ r1 # r2 /\ tasks[r1].user = tasks[r2].user
        /\ tasks[r1].pc = "done" /\ tasks[r1].obj # 0
        /\ tasks[r2].pc = "done" /\ tasks[r2].obj = 0
        /\ tasks[r2].handle = tasks[r1].handle /\ tasks[r1].handle = tasks[r1].obj

\* C18: registering an email that is registered already is answered with
\* 200 and a token for that email; no user record is added and the stored
\* password hash (like every other column) stays as it was.
C18_SecondRegistrationKeepsTheUser ==
    [][(last = Idle /\ last'.op = "register" /\ last'.fault = "none"
          /\ last'.user \in users)
          => /\ last'.status = 200
             /\ last'.exp = now + ACCESS_TOKEN_EXPIRE_MINUTES
             /\ create_access_token(last'.user, now) \in issued'
             /\ users' = users
             /\ accounts' = accounts]_vars

\* a registered email has been registered again with another password
C18_Witness ==
    /\ last.op = "register" /\ last.status = 200
    /\ last.user \in users
    /\ accounts[last.user].hashed_password # Hash(last.arg)

\* C19: a login for an email that is not registered and a login with a
\* wrong password for a registered email are both answered with 401 and the
\* detail 'Incorrect email or password'; a login answered with 401 hands
\* out no token and leaves last_login as it was.
C19_RejectedLoginIsUniform ==
    [][(last = Idle /\ last'.op = "login" /\ last'.fault # "lookup")
          => /\ ( \/ last'.user \notin users
                  \/ ~Verify(last'.arg, accounts[last'.user].hashed_password) )
                => (last'.status = 401 /\ last'.detail = "Incorrect email or password")
             /\ last'.status = 401 => (issued' = issued /\ accounts' = accounts)]_vars

\* an active user who has logged in before has been refused with a wrong
\* password while another email is not registered
C19_Witness ==
    /\ last.op = "login" /\ last.status = 401
    /\ last.user \in users /\ accounts[last.user].is_active
    /\ last.arg \in Passwords
    /\ accounts[last.user].last_login # NoLogin /\ accounts[last.user].last_login < now
    /\ users # Users

\* C20: verify_token returns the email of a token only if the token is
\* signed, not expired, names a subject, and that user is in the database
\* and active now; otherwise it returns None, and the request is answered
\* with 401 and never with a server error.  A token handed out before its
\* user was removed or deactivated is refused afterwards.
C20_TokenNeedsLiveUser ==
    last.op = "me" =>
        LET token == last.arg
            good  == /\ token.sig /\ token.exp >= now /\ token.sub # NoUser
                     /\ token.sub \in users /\ accounts[token.sub].is_active
        IN  /\ last.status \in {200, 401}
            /\ last.status = 200 <=> last.user # NoUser
            /\ last.user # NoUser => (good /\ last.user = token.sub)
            /\ (good /\ last.fault = "none") => last.user = token.sub

\* a token that was handed out and has not expired has been refused because
\* its user has been removed or deactivated since
C20_Witness ==
    /\ last.op = "me" /\ last.status = 401 /\ last.fault = "none"
    /\ last.arg \in issued /\ last.arg.exp >= now
    /\ last.arg.sub \notin users \/ ~accounts[last.arg.sub].is_active

\* C21: in the legacy server, a GET or a DELETE of a note id that is not in
\* the index and a search without results are answered with 404; 500 is the
\* answer only when the operation of NoteRAG itself has failed.
C21_LegacyMissingIs404 ==
    /\ ( /\ last.op \in {"legacy_get", "legacy_delete"} /\ last.fault = "none"
         /\ \A n \in 1..Len(docstore) : NoteId(n) # last.arg )
       => last.status = 404
    /\ (last.op = "legacy_search" /\ last.fault = "none" /\ LegacyNotes = {})
       => last.status = 404
    /\ (last.op \in {"legacy_get", "legacy_delete", "legacy_search"}
          /\ last.status = 500)
       => last.fault # "none"

\* the notes of a sequence of ids, each at its first place
RECURSIVE Distinct(_)
Distinct(ids) ==
    IF ids = << >> THEN << >>
    ELSE <<ids[1]>> \o Distinct(SelectSeq(Tail(ids), LAMBDA id : id # ids[1]))

\* the notes the hits of the last query resolve to, in the retriever's order
ResolvedHits == Distinct(SelectSeq(last.hits, ResolvableHit))

\* C22: when a query resolves at least one note, the context block lists the
\* resolved notes in descending similarity (the retriever's order, not the
\* order of the rows), and the sources are exactly those notes in that order.
C22_ContextAndSourcesInSimilarityOrder ==
    (last.op = "query" /\ last.detail = "answer")
    => /\ last.context = ResolvedHits
       /\ Distinct([i \in 1..Len(last.body) |-> last.body[i].id]) = ResolvedHits

\* the notes query_notes resolves for the retrieved hits: those with a row in
\* notes_from_db, in the retriever's order
ResolvedByQuery(user_email, retrieved) ==
    LET notes_from_db == NotesFromDb({retrieved[i].doc_id : i \in 1..Len(retrieved)},
                                     user_email)
    IN  Distinct(SelectSeq(DocIds(retrieved),
                           LAMBDA id : \E r \in notes_from_db : r.id = id))

\* C23: for the same user, query, k and state, the notes a query resolves
\* with top_k = k are the notes a search returns with limit = k: the same join
\* key, the same notes, the same order.
C23_QueryResolvesWhatSearchReturns ==
    \A user_email \in Users, k \in Limits :
        \A retrieved \in Retrievals(user_email, k) :
            LET found == search_notes(user_email, retrieved, "none")
            IN  [i \in 1..Len(found) |-> found[i].id]
                    = ResolvedByQuery(user_email, retrieved)

\* C24 as stated: a record with doc_id = n is in a user's collection only if
\* n was committed to the relational store with that user as its owner.
C24_RecordOnlyInOwnersCollection ==
    \A user_email \in users \cap note_rag_instances :
        \A v \in Collection(user_email) :
            Committed(v.doc_id) /\ OwnerOf(v.doc_id) = user_email

\* C24: the records of a note n are inserted only once the row of n is
\* committed and are deleted only once the deletion of the row is committed;
\* hence a record with doc_id = n is in a collection only if n was committed
\* with an owner whose identity sanitizes to the name of that collection.
C24_VectorStepFollowsCommit ==
    [][ /\ \A v \in vectors' \ vectors :
              /\ Num(v.doc_id) \in 1..Len(hist')
              /\ \E r \in notes' : r.id = v.doc_id
        /\ \A v \in vectors \ vectors' :
              /\ hist'[Num(v.doc_id)].deleted
              /\ ~\E r \in notes' : r.id = v.doc_id
        /\ \A v \in vectors' :
              /\ Num(v.doc_id) \in 1..Len(hist')
              /\ CollectionName(hist'[Num(v.doc_id)].user) = v.coll ]_vars

\* a delete has removed the records of its note after an add has inserted
\* records that are still there
C24_Witness ==
    /\ last.op = "delete" /\ last.status = 204 /\ last.fault = "none"
    /\ vectors # {}
    /\ \E n \in 1..Len(hist) :
          /\ hist[n].deleted /\ hist[n].ok
          /\ ~\E v \in vectors : v.doc_id = NoteId(n)

\* C25: delete_note_vector(n) removes from the handle's collection every
\* record with doc_id = n and no other record; it returns true exactly when
\* the backend's delete did not raise, also when no record matched, false
\* when it raised, and it never raises: the delete is answered 204.
C25_DeleteVectorByDocId ==
    [][ ( /\ last'.op = "delete" /\ last.op = "idle"
          /\ last'.fault \in {"none", "vec"}
          /\ \E r \in notes \ notes' : r.id = last'.arg )
        => /\ last'.status = 204
           /\ last'.success <=> last'.fault = "none"
           /\ last'.fault = "vec" => vectors' = vectors
           /\ last'.fault = "none" =>
                 vectors' = {v \in vectors : ~( /\ v.coll = CollectionName(last'.user)
                                               /\ v.doc_id = last'.arg )} ]_vars

\* a delete whose vector step has returned true: no record of its note is
\* left, the records of another note are still in the collection
C25_Witness ==
    /\ last.op = "delete" /\ last.status = 204 /\ last.success
    /\ hist[Num(last.arg)].ok
    /\ Collection(last.user) # {}
    /\ \A v \in vectors : v.doc_id # last.arg

\* C26: when the text of a note gives zero chunks, add_note_vector returns
\* without raising and leaves the collection as it was; the add is answered
\* with the note, its row is committed and no record exists for it.
C26_NoChunksIsNoOp ==
    [][ ( /\ last'.op = "add" /\ last.op = "idle" /\ last'.fault = "none"
          /\ \E r \in notes' \ notes : NumChunks(r.text) = 0 )
        => /\ last'.status = 200
           /\ vectors' = vectors
           /\ \E r \in notes' \ notes :
                 /\ BodyIds' = {r.id}
                 /\ \A v \in vectors' : v.doc_id # r.id ]_vars

\* an empty note has been added to a collection that holds records
C26_Witness ==
    /\ last.op = "add" /\ last.status = 200
    /\ Len(last.body) = 1 /\ last.body[1].text = EmptyText
    /\ \E r \in notes : r.id = last.body[1].id
    /\ Collection(last.user) # {}

\* the places of an identity that hold a character of [A-Za-z0-9-]
Kept(identity) == {i \in 1..Len(identity) : identity[i] \in NameChars \ {"_"}}

\* the kept characters from place i on, with one '_' wherever characters
\* between two of them were left out
RECURSIVE Joined(_, _)
Joined(identity, i) ==
    IF i > Len(identity) THEN << >>
    ELSE IF i \notin Kept(identity) THEN Joined(identity, i + 1)
    ELSE (IF i - 1 \notin Kept(identity) /\ \E j \in Kept(identity) : j < i
          THEN <<"_">> ELSE << >>)
         \o <<identity[i]>> \o Joined(identity, i + 1)

DefaultName == collection_name_prefix \o <<"_","d","e","f","a","u","l","t">>

\* C27 as stated: the name is the prefix, '_' and the sanitized identity,
\* truncated to 63 characters, for every identity; prefix + '_default' for
\* the anonymous caller.
C27_NameIsPrefixAndSanitizedIdentity ==
    last.op = "init"
    => last.arg = IF last.user = NoUser THEN DefaultName
                  ELSE Truncate(collection_name_prefix \o <<"_">> \o Joined(last.user, 1),
                                MaxCollectionNameLen)

\* C27: the name is the prefix, '_' and the identity with the characters
\* outside [A-Za-z0-9_-] replaced by '_', the runs of '_' collapsed and the
\* '_' at both ends stripped, truncated to 63 characters; an identity of
\* which nothing is left gets prefix + '_invalid_user', the anonymous caller
\* prefix + '_default'.
C27_NameOfSanitizedIdentity ==
    last.op = "init"
    => last.arg = IF last.user = NoUser THEN DefaultName
                  ELSE IF Kept(last.user) = {}
                  THEN collection_name_prefix \o <<"_","i","n","v","a","l","i","d",
                                                    "_","u","s","e","r">>
                  ELSE Truncate(collection_name_prefix \o <<"_">> \o Joined(last.user, 1),
                                MaxCollectionNameLen)

\* a handle for an identity with characters outside the class, a run of '_'
\* and an end to strip, whose name has been cut at the limit
C27_Witness ==
    /\ last.op = "init"
    /\ Len(last.arg) = MaxCollectionNameLen
    /\ Len(collection_name_prefix) + 1 + Len(Joined(last.user, 1)) > MaxCollectionNameLen
    /\ \E i \in 1..Len(last.user) - 1 :
          /\ last.user[i] \notin NameChars
          /\ last.user[i + 1] \notin NameChars \ {"_"}

\* C28: when the embedding, the vector query or the lookup of the rows fails,
\* a search returns an empty list and a query returns a text with no
\* sources, both as a success; a search or a query is answered with a
\* server error only when the handle could not be obtained.
C28_RetrievalFailureIsContained ==
    /\ (last.op = "search" /\ last.fault \in {"retrieve", "db"})
       => last.status = 200 /\ last.body = << >>
    /\ (last.op = "query" /\ last.fault \in {"retrieve", "db"})
       => last.status = 200 /\ last.detail = "error" /\ last.body = << >>
    /\ (last.op \in {"search", "query"} /\ last.status = 500)
       => last.fault = "conn"

\* the lookup of the rows of a query has failed after the retriever had
\* found records
C28_Witness ==
    /\ last.op = "query" /\ last.fault = "db"
    /\ last.hits # << >>
    /\ last.status = 200

\* C29: the sources of a query hold each note id at most once, also when
\* several of the hits are chunks of one note.
C29_SourcesHoldEachNoteOnce ==
    last.op = "query"
    => \A i, j \in 1..Len(last.body) : i # j => last.body[i].id # last.body[j].id

\* C30: authenticate_user returns a user only if the user exists, is active
\* and the password given verifies against the stored hash; for every other
\* combination of a stored hash (present, absent) and a password (present,
\* empty, absent) it returns None, and the login is rejected.
C30_LoginNeedsVerifiedPassword ==
    (last.op = "login" /\ last.status = 200)
    => /\ last.user \in users
       /\ accounts[last.user].is_active
       /\ last.arg # NoPassword
       /\ accounts[last.user].hashed_password # NoHash
       /\ Verify(last.arg, accounts[last.user].hashed_password)

====
